---- MODULE Spec2Model ----
(***************************************************************************)
(* db_configure_nat.py: interactive provisioning of an internet gateway,  *)
(* a subnet, a NAT gateway, a route table and routes in an existing VPC.  *)
(*                                                                         *)
(* The model follows main() statement by statement.  Every call on the    *)
(* boto3 EC2 client is one action; the client's answer (a response, a     *)
(* ClientError, or another exception) is chosen nondeterministically.     *)
(* Every call that reaches the client is appended to the log `calls`.     *)
(* Operator answers to input() are sequences of one-character strings so  *)
(* that the regular expression and int() are computed character by        *)
(* character.                                                              *)
(***************************************************************************)
EXTENDS Integers, Sequences, FiniteSets, TLC

VARIABLES
    pc,           \* position in main(): the statement about to run
    err,          \* the exception that ended the run, "" while none
    vpc,          \* main.vpc
    cidr,         \* main.cidr
    igw,          \* main.igw
    subnet_id,    \* main.subnet_id
    allocation,   \* setup_nat_gateway.allocation['AllocationId']
    nat_gateway,  \* main.nat_gateway (None when setup_nat_gateway fell through)
    nat_state,    \* provider-side readiness of the NAT gateway
    route_table,  \* main.route_table
    num_routes,   \* main.num_routes once int() accepted it
    i,            \* loop index of `for i in range(num_routes)`
    frame,        \* the active create_route invocation (its arguments, depth, answers)
    results,      \* outcome of each finished create_route invocation of main()
    calls,        \* log of the calls made on the EC2 client, in order
    out,          \* what the run printed, in order
    prompts,      \* the input() prompts shown, in order
    reprompts     \* number of rejected answers so far

vars == <<pc, err, vpc, cidr, igw, subnet_id, allocation, nat_gateway, nat_state,
          route_table, num_routes, i, frame, results, calls, out, prompts, reprompts>>

-----------------------------------------------------------------------------
(* Bounds of the model *)

\* Rejected operator answers allowed in one run (the reprompt loops are unbounded).
MaxReprompts == 1

\* Largest number of dot-separated groups in a string handed to cidr_re alone
MaxGroups == 4

\* Depth at which the interpreter refuses one more nested create_route frame
\* (CPython's recursion limit, scaled down).
RecursionLimit == 3

\* time.sleep(5) before the retry
RetryDelay == 5

-----------------------------------------------------------------------------
(* Values *)

None == "None"

\* Answers of the EC2 client to one call.  "ok" is a normal response; the others
\* are exceptions: a botocore ClientError or any other Exception, whose text
\* does or does not contain "NotFound".
Resp == {"ok", "ClientError:NotFound", "ClientError:Other",
         "Exception:NotFound", "Exception:Other"}

IsClientError(r) == r \in {"ClientError:NotFound", "ClientError:Other"}

\* `"NotFound" in str(e)`
HasNotFound(r) == r \in {"ClientError:NotFound", "Exception:NotFound"}

\* What the logs keep of an answer: a response, an error whose text has
\* "NotFound", or any other error
AnswerKind(r) == IF r = "ok" THEN "ok" ELSE IF HasNotFound(r) THEN "NotFound" ELSE "Error"

\* Identifiers the provider may hand out
IgwIds    == {"igw-1", "igw-2"}
SubnetIds == {"subnet-1"}
AllocIds  == {"eipalloc-1"}
NatIds    == {"nat-1"}
RtbIds    == {"rtb-1", "rtb-2"}

\* Operator answers
VpcAnswers == {"", "vpc-123"}

S_10_0_5_0_24     == <<"1","0",".","0",".","5",".","0","/","2","4">>
S_172_16_0_0_16   == <<"1","7","2",".","1","6",".","0",".","0","/","1","6">>
S_999             == <<"9","9","9",".","9","9","9",".","9","9","9",".","9","9","9">>
S_1_2_3_4_05      == <<"1",".","2",".","3",".","4","/","0","5">>
S_1_2_3_4_33      == <<"1",".","2",".","3",".","4","/","3","3">>
\* '0.0.0.0/0', main() line 247
S_default         == <<"0",".","0",".","0",".","0","/","0">>

CidrAnswers == {S_10_0_5_0_24, S_1_2_3_4_33}
DestAnswers == {S_172_16_0_0_16, S_999, S_1_2_3_4_05}
NumAnswers  == {<<"0">>, <<"1">>, <<"2">>, <<"-","1">>, <<"x">>}

-----------------------------------------------------------------------------
(* cidr_re = '^([0-9]{1,3}\.){3}[0-9]{1,3}(\/([0-9]|[1-2][0-9]|3[0-2]))?$' *)

Digits == {"0","1","2","3","4","5","6","7","8","9"}

CharAt(s, p) == IF p >= 1 /\ p <= Len(s) THEN s[p] ELSE "<eos>"

\* n characters from position p are all [0-9]
DigitsAt(s, p, n) == \A k \in 0..(n-1) : CharAt(s, p + k) \in Digits

\* `$`: at the end of the string, or just before a final newline
AtEnd(s, p) == \/ p = Len(s) + 1
               \/ p = Len(s) /\ s[p] = "\n"

\* Variant of MatchMask: the mask group read as [0-9]{1,2}
MatchMask_TwoDigits(s, p) ==
    \/ CharAt(s, p) \in Digits /\ AtEnd(s, p + 1)
    \/ CharAt(s, p) \in Digits /\ CharAt(s, p + 1) \in Digits /\ AtEnd(s, p + 2)

\* ([0-9]|[1-2][0-9]|3[0-2]) followed by `$`
MatchMask(s, p) ==
    \/ CharAt(s, p) \in Digits /\ AtEnd(s, p + 1)
    \/ CharAt(s, p) \in {"1","2"} /\ CharAt(s, p + 1) \in Digits /\ AtEnd(s, p + 2)
    \/ CharAt(s, p) = "3" /\ CharAt(s, p + 1) \in {"0","1","2"} /\ AtEnd(s, p + 2)

\* [0-9]{1,3}(\/(mask))?$ from position p
MatchLastOctet(s, p) ==
    \E n \in 1..3 :
        /\ DigitsAt(s, p, n)
        /\ \/ AtEnd(s, p + n)
           \/ CharAt(s, p + n) = "/" /\ MatchMask(s, p + n + 1)

\* ([0-9]{1,3}\.){k} from position p, then the rest of the pattern
RECURSIVE MatchOctets(_, _, _)
MatchOctets(s, p, k) ==
    IF k = 0 THEN MatchLastOctet(s, p)
    ELSE \E n \in 1..3 :
            /\ DigitsAt(s, p, n)
            /\ CharAt(s, p + n) = "."
            /\ MatchOctets(s, p + n + 1, k - 1)

\* cidr_re.match(s)
CidrMatch(s) == MatchOctets(s, 1, 3)

-----------------------------------------------------------------------------
(* int(s) on an operator answer: surrounding blanks are stripped, an      *)
(* optional sign, then decimal digits; anything else is a ValueError.     *)

DigitVal(c) == CASE c = "0" -> 0 [] c = "1" -> 1 [] c = "2" -> 2 [] c = "3" -> 3
                 [] c = "4" -> 4 [] c = "5" -> 5 [] c = "6" -> 6 [] c = "7" -> 7
                 [] c = "8" -> 8 [] c = "9" -> 9 [] OTHER -> 0

RECURSIVE Strip(_)
Strip(s) == IF s = <<>> THEN s
            ELSE IF Head(s) = " " THEN Strip(Tail(s))
            ELSE IF s[Len(s)] = " " THEN Strip(SubSeq(s, 1, Len(s) - 1))
            ELSE s

RECURSIVE DecVal(_)
DecVal(s) == IF s = <<>> THEN 0
             ELSE 10 * DecVal(SubSeq(s, 1, Len(s) - 1)) + DigitVal(s[Len(s)])

\* [ok |-> FALSE] stands for ValueError
ParseInt(s) ==
    LET t    == Strip(s)
        sgn  == IF t # <<>> /\ Head(t) \in {"-", "+"} THEN Head(t) ELSE ""
        body == IF sgn = "" THEN t ELSE Tail(t)
    IN  IF body # <<>> /\ \A k \in 1..Len(body) : body[k] \in Digits
        THEN [ok |-> TRUE, val |-> IF sgn = "-" THEN 0 - DecVal(body) ELSE DecVal(body)]
        ELSE [ok |-> FALSE, val |-> 0]

\* len(range(n))
RangeLen(n) == IF n > 0 THEN n ELSE 0

-----------------------------------------------------------------------------
(* Bookkeeping shared by the actions *)

\* One call on the EC2 client: the method, its keyword arguments, the kind of
\* the client's answer, and for create_route the call site in main()
\* (0 = line 247, k = k-th pass of line 273).
\* One client call with the identifier its response carried, None when none
CallRet(op, args, site, r, ret) ==
    [op |-> op, args |-> args, site |-> site, resp |-> AnswerKind(r), ret |-> ret]

Call(op, args, site, r) == CallRet(op, args, site, r, None)

\* A create_route(client, route_table, destination, gateway, mode) frame.
\* depth counts the nested invocations, answers the client's answers so far,
\* slept the seconds spent in time.sleep.
NoFrame == [route_table |-> None, destination |-> <<>>, gateway |-> None, mode |-> "",
            depth |-> 0, answers |-> <<>>, kinds |-> <<>>, slept |-> 0, site |-> 0]

\* Variant of EnterCreateRoute: the VPC id passed where the route table id goes
EnterCreateRoute_VpcAsTable(rt, dest, gw, mode, site) ==
    [route_table |-> vpc, destination |-> dest, gateway |-> gw, mode |-> mode,
     depth |-> 1, answers |-> <<>>, kinds |-> <<>>, slept |-> 0, site |-> site]

EnterCreateRoute(rt, dest, gw, mode, site) ==
    [route_table |-> rt, destination |-> dest, gateway |-> gw, mode |-> mode,
     depth |-> 1, answers |-> <<>>, kinds |-> <<>>, slept |-> 0, site |-> site]

\* One input() of main(): the prompt shown and the operator's answer
Asked(prompt, a) == [prompt |-> prompt, answer |-> a]

\* An uncaught exception leaves main(): the process ends with a traceback.
Raise(e) == /\ pc' = "aborted"
            /\ err' = e

\* Cap on rejected answers: a rejected answer is only drawn while below the cap.
MayReject == reprompts < MaxReprompts

Init ==
    /\ pc = "create_client"
    /\ err = ""
    /\ vpc = None
    /\ cidr = <<>>
    /\ igw = None
    /\ subnet_id = None
    /\ allocation = None
    /\ nat_gateway = None
    /\ nat_state = "absent"
    /\ route_table = None
    /\ num_routes = 0
    /\ i = 0
    /\ frame = NoFrame
    /\ results = <<>>
    /\ calls = <<>>
    /\ out = <<>>
    /\ prompts = <<>>
    /\ reprompts = 0

-----------------------------------------------------------------------------
(* create_client(), lines 28-50, called from main() line 216 *)

\* "NoRegionError" is raised by Session().client('ec2') before any request;
\* the other failures are raised by describe_instances().
\* Variant of CreateClient: the failure is reported and main() carries on
CreateClient_Swallow ==
    /\ pc = "create_client"
    /\ \E a \in {"ok", "NoRegionError", "NoCredentialsError", "ClientError"} :
        /\ calls' = IF a = "NoRegionError" THEN calls
                    ELSE Append(calls, Call("describe_instances", <<>>, 0, a))
        /\ pc' = "input_vpc"
        /\ err' = IF a = "ok" THEN err ELSE "Error creating client"
    /\ UNCHANGED <<vpc, cidr, igw, subnet_id, allocation, nat_gateway, nat_state,
                   route_table, num_routes, i, frame, results, out, prompts, reprompts>>

CreateClient ==
    /\ pc = "create_client"
    /\ \E a \in {"ok", "NoRegionError", "NoCredentialsError", "ClientError"} :
        /\ calls' = IF a = "NoRegionError" THEN calls
                    ELSE Append(calls, Call("describe_instances", <<>>, 0, a))
        /\ IF a = "ok"
           THEN /\ pc' = "input_vpc"
                /\ err' = err
           ELSE Raise("Error creating client")
    /\ UNCHANGED <<vpc, cidr, igw, subnet_id, allocation, nat_gateway, nat_state,
                   route_table, num_routes, i, frame, results, out, prompts, reprompts>>

-----------------------------------------------------------------------------
(* main(), lines 218-232: the VPC and subnet CIDR prompts *)

\* line 219: vpc = input(...)
InputVpc ==
    /\ pc = "input_vpc"
    /\ \E a \in VpcAnswers :
        /\ vpc' = a
        /\ prompts' = Append(prompts, Asked("vpc", a))
        /\ pc' = IF a = "" THEN "while_not_vpc" ELSE "input_cidr"
    /\ UNCHANGED <<err, cidr, igw, subnet_id, allocation, nat_gateway, nat_state,
                   route_table, num_routes, i, frame, results, calls, out, reprompts>>

\* lines 220-222: one pass of `while not vpc:`.  The answer read by input()
\* on line 222 is not assigned, so vpc keeps its value.  The loop has no bound
\* of its own: past the cap the logs keep only the latest pass, so that the
\* passes go on without the logs growing.
WhileNotVpc ==
    /\ pc = "while_not_vpc"
    /\ \E a \in VpcAnswers :
        /\ IF MayReject
           THEN /\ out' = Append(out, <<"Please provide a valid VPC ID.">>)
                /\ prompts' = Append(prompts, Asked("vpc", a))
                /\ reprompts' = reprompts + 1
           ELSE /\ out' = out
                /\ prompts' = [prompts EXCEPT ![Len(prompts)] = Asked("vpc", a)]
                /\ reprompts' = reprompts
        /\ pc' = IF vpc = "" THEN "while_not_vpc" ELSE "input_cidr"
    /\ UNCHANGED <<err, vpc, cidr, igw, subnet_id, allocation, nat_gateway, nat_state,
                   route_table, num_routes, i, frame, results, calls>>

\* lines 224 and 230-232: read the subnet CIDR until cidr_re matches it
InputCidr ==
    /\ pc = "input_cidr"
    /\ \E a \in CidrAnswers :
        /\ CidrMatch(a) \/ MayReject
        /\ cidr' = a
        /\ prompts' = Append(prompts, Asked("cidr", a))
        /\ IF CidrMatch(a)
           THEN /\ pc' = "create_internet_gateway"
                /\ UNCHANGED <<out, reprompts>>
           ELSE /\ pc' = "input_cidr"
                /\ out' = Append(out, <<"CIDR range format is invalid.">>)
                /\ reprompts' = reprompts + 1
    /\ UNCHANGED <<err, vpc, igw, subnet_id, allocation, nat_gateway, nat_state,
                   route_table, num_routes, i, frame, results, calls>>

-----------------------------------------------------------------------------
(* create_igw(client, vpc), lines 189-205, called from main() line 235 *)

\* line 199: client.create_internet_gateway().  A ClientError is re-raised as
\* Exception (line 205); any other exception leaves create_igw as it is.
CreateInternetGateway ==
    /\ pc = "create_internet_gateway"
    /\ \E r \in Resp :
        /\ IF r = "ok"
           THEN /\ \E id \in IgwIds : igw' = id
                /\ pc' = "attach_internet_gateway"
                /\ err' = err
           ELSE /\ Raise(IF IsClientError(r) THEN "Could not create IGW" ELSE r)
                /\ igw' = igw
        /\ calls' = Append(calls, CallRet("create_internet_gateway", <<>>, 0, r,
                                         IF r = "ok" THEN igw' ELSE None))
    /\ UNCHANGED <<vpc, cidr, subnet_id, allocation, nat_gateway, nat_state, route_table,
                   num_routes, i, frame, results, out, prompts, reprompts>>

\* line 201: client.attach_internet_gateway(InternetGatewayId=igw, VpcId=vpc)
AttachInternetGateway ==
    /\ pc = "attach_internet_gateway"
    /\ \E r \in Resp :
        /\ calls' = Append(calls, Call("attach_internet_gateway", <<igw, vpc>>, 0, r))
        /\ IF r = "ok"
           THEN /\ pc' = "create_subnet"
                /\ err' = err
           ELSE Raise(IF IsClientError(r) THEN "Could not create IGW" ELSE r)
    /\ UNCHANGED <<vpc, cidr, igw, subnet_id, allocation, nat_gateway, nat_state,
                   route_table, num_routes, i, frame, results, out, prompts, reprompts>>

-----------------------------------------------------------------------------
(* create_subnet(client, cidr_blk, vpc_id), lines 54-77, called from line 238 *)

\* Variant of CreateSubnet: the error is printed and swallowed, as
\* setup_nat_gateway does, and create_subnet returns None
CreateSubnet_Swallow ==
    /\ pc = "create_subnet"
    /\ \E r \in Resp :
        /\ IF r = "ok"
           THEN /\ \E id \in SubnetIds :
                     /\ subnet_id' = id
                     /\ out' = Append(out, <<"Create subnet with subnetID", id>>)
           ELSE /\ subnet_id' = None
                /\ out' = Append(out, <<"Error when creating subnet">>)
        /\ pc' = "allocate_address"
        /\ err' = err
        /\ calls' = Append(calls, CallRet("create_subnet", <<vpc, cidr>>, 0, r,
                                         IF r = "ok" THEN subnet_id' ELSE None))
    /\ UNCHANGED <<vpc, cidr, igw, allocation, nat_gateway, nat_state, route_table,
                   num_routes, i, frame, results, prompts, reprompts>>

CreateSubnet ==
    /\ pc = "create_subnet"
    /\ \E r \in Resp :
        /\ IF r = "ok"
           THEN /\ \E id \in SubnetIds :
                     /\ subnet_id' = id
                     /\ out' = Append(out, <<"Create subnet with subnetID", id>>)
                /\ pc' = "allocate_address"
                /\ err' = err
           ELSE /\ Raise(IF IsClientError(r) THEN "Error when creating subnet" ELSE r)
                /\ UNCHANGED <<subnet_id, out>>
        /\ calls' = Append(calls, CallRet("create_subnet", <<vpc, cidr>>, 0, r,
                                         IF r = "ok" THEN subnet_id' ELSE None))
    /\ UNCHANGED <<vpc, cidr, igw, allocation, nat_gateway, nat_state, route_table,
                   num_routes, i, frame, results, prompts, reprompts>>

-----------------------------------------------------------------------------
(* setup_nat_gateway(client, subnet), lines 80-109, called from line 241 *)

\* lines 90-93: client.allocate_address(Domain='vpc'); a failure is raised
AllocateAddress ==
    /\ pc = "allocate_address"
    /\ \E r \in Resp :
        /\ IF r = "ok"
           THEN /\ \E id \in AllocIds : allocation' = id
                /\ pc' = "create_nat_gateway"
                /\ err' = err
           ELSE /\ Raise(IF IsClientError(r) THEN "Error allocating ip" ELSE r)
                /\ allocation' = allocation
        /\ calls' = Append(calls, CallRet("allocate_address", <<"vpc">>, 0, r,
                                         IF r = "ok" THEN allocation' ELSE None))
    /\ UNCHANGED <<vpc, cidr, igw, subnet_id, nat_gateway, nat_state, route_table,
                   num_routes, i, frame, results, out, prompts, reprompts>>

\* Variant of NatGatewayFailed: the handler starts setup_nat_gateway over
NatGatewayFailed_Redo(r) ==
    /\ out' = Append(out, <<"Error returned when creating NAT Gateway", subnet_id, allocation>>)
    /\ nat_gateway' = None
    /\ pc' = "allocate_address"
    /\ err' = err

\* lines 107-109: `except Exception` prints the error and falls off the end of
\* setup_nat_gateway, which therefore returns None; main() goes on at line 244.
NatGatewayFailed(r) ==
    /\ out' = Append(out, <<"Error returned when creating NAT Gateway", subnet_id, allocation>>)
    /\ nat_gateway' = None
    /\ pc' = "create_route_table"
    /\ err' = err

\* lines 96-102: client.create_nat_gateway(SubnetId=subnet, AllocationId=...)
CreateNatGateway ==
    /\ pc = "create_nat_gateway"
    /\ \E r \in Resp :
        /\ IF r = "ok"
           THEN /\ \E id \in NatIds :
                     /\ nat_gateway' = id
                     /\ out' = Append(out, <<"Creating NAT gateway", id>>)
                /\ nat_state' = "pending"
                /\ pc' = "wait_nat_gateway"
                /\ err' = err
           ELSE /\ NatGatewayFailed(r)
                /\ nat_state' = nat_state
        /\ calls' = Append(calls, CallRet("create_nat_gateway", <<subnet_id, allocation>>, 0, r,
                                         IF r = "ok" THEN nat_gateway' ELSE None))
    /\ UNCHANGED <<vpc, cidr, igw, subnet_id, allocation, route_table, num_routes, i,
                   frame, results, prompts, reprompts>>

\* lines 103-105: get_waiter('nat_gateway_available').wait(...).  The waiter
\* returns once the gateway is available; it raises WaiterError when the gateway
\* failed or is still pending after the waiter's last poll.
WaitNatGateway ==
    /\ pc = "wait_nat_gateway"
    /\ \E s \in {"available", "failed", "pending"} :
        /\ calls' = Append(calls, Call("wait_nat_gateway_available", <<nat_gateway>>, 0,
                                      IF s = "available" THEN "ok" ELSE "Exception:Other"))
        /\ nat_state' = s
        /\ IF s = "available"
           THEN /\ out' = Append(out, <<"Created NAT gateway">>)
                /\ pc' = "create_route_table"
                /\ err' = err
                /\ nat_gateway' = nat_gateway
           ELSE NatGatewayFailed("WaiterError")
    /\ UNCHANGED <<vpc, cidr, igw, subnet_id, allocation, route_table, num_routes, i,
                   frame, results, prompts, reprompts>>

-----------------------------------------------------------------------------
(* create_route_table(client, vpc, subnet), lines 112-131, called from line 244 *)

\* line 124: client.create_route_table(VpcId=vpc)
CreateRouteTable ==
    /\ pc = "create_route_table"
    /\ \E r \in Resp :
        /\ IF r = "ok"
           THEN /\ \E id \in RtbIds : route_table' = id
                /\ pc' = "associate_route_table"
                /\ err' = err
           ELSE /\ Raise(IF IsClientError(r) THEN "Error returned when creating Route Table" ELSE r)
                /\ route_table' = route_table
        /\ calls' = Append(calls, CallRet("create_route_table", <<vpc>>, 0, r,
                                         IF r = "ok" THEN route_table' ELSE None))
    /\ UNCHANGED <<vpc, cidr, igw, subnet_id, allocation, nat_gateway, nat_state,
                   num_routes, i, frame, results, out, prompts, reprompts>>

\* line 127: client.associate_route_table(RouteTableId=..., SubnetId=subnet);
\* on return main() enters create_route(client, route_table, '0.0.0.0/0', igw, 'igw')
AssociateRouteTable ==
    /\ pc = "associate_route_table"
    /\ \E r \in Resp :
        /\ calls' = Append(calls, Call("associate_route_table", <<route_table, subnet_id>>, 0, r))
        /\ IF r = "ok"
           THEN /\ pc' = "create_route"
                /\ frame' = EnterCreateRoute(route_table, S_default, igw, "igw", 0)
                /\ err' = err
           ELSE /\ Raise(IF IsClientError(r) THEN "Error returned when creating Route Table" ELSE r)
                /\ frame' = frame
    /\ UNCHANGED <<vpc, cidr, igw, subnet_id, allocation, nat_gateway, nat_state,
                   route_table, num_routes, i, results, out, prompts, reprompts>>

-----------------------------------------------------------------------------
(* create_route(client, route_table, destination, gateway, mode), lines 135-185 *)

\* Variant of TargetKind: the gateway always passed as NatGatewayId
TargetKind_AlwaysNat(mode) == "NatGatewayId"

\* lines 151 and 158: the keyword the gateway is passed under, from mode.lower()
TargetKind(mode) ==
    CASE mode \in {"nat", "NAT", "Nat"} -> "NatGatewayId"
      [] mode \in {"igw", "IGW", "Igw"} -> "GatewayId"
      [] OTHER -> "invalid"

\* What client.create_route can answer.  botocore validates the parameters
\* before it sends anything: a gateway of None is refused with
\* ParamValidationError, which is no ClientError and has no "NotFound" in it.
RouteResp(gw) == IF gw = None THEN {"Exception:Other"} ELSE Resp

\* Variants of ShouldRetry: no error is retried; every error is retried
ShouldRetry_Never(r) == FALSE

ShouldRetry_Always(r) == r # "ok"

\* lines 171 and 179: both handlers retry exactly when the text has "NotFound"
ShouldRetry(r) == HasNotFound(r)

\* Variant of RetryMode: the nested invocation keeps the caller's mode
RetryMode_Same(mode) == mode

\* lines 174 and 182: the nested invocation is always made with mode 'nat'
RetryMode(mode) == "nat"

\* A finished create_route invocation of main()
Finished(f, outcome) ==
    [site |-> f.site, destination |-> f.destination, outcome |-> outcome,
     answers |-> f.answers, kinds |-> f.kinds, slept |-> f.slept]

\* main() after create_route returned the provider's response, which is a
\* non-empty dict and so true: line 248 does not raise, line 275 does not warn.
RouteReturned(f) ==
    /\ results' = Append(results, Finished(f, "Success"))
    /\ out' = Append(out, <<"Route created">>)
    /\ frame' = NoFrame
    /\ err' = err
    /\ IF f.site = 0
       THEN /\ pc' = "input_num_routes"
            /\ i' = i
       ELSE /\ i' = i + 1
            /\ pc' = IF i + 1 < RangeLen(num_routes) THEN "input_route_dest" ELSE "done"

\* Variant of RouteRaised: the failure is answered by making a new route table
RouteRaised_NewTable(f, printed) ==
    /\ results' = Append(results, Finished(f, "Failure"))
    /\ out' = printed
    /\ frame' = NoFrame
    /\ i' = i
    /\ pc' = "create_route_table"
    /\ err' = err

\* Variant of RouteRaised: create_route returns False instead of raising and
\* main() only warns, at both call sites
RouteRaised_Warn(f, printed) ==
    /\ results' = Append(results, Finished(f, "Failure"))
    /\ out' = Append(printed, <<"Warning: Could not create route">>)
    /\ frame' = NoFrame
    /\ err' = err
    /\ IF f.site = 0
       THEN /\ pc' = "input_num_routes"
            /\ i' = i
       ELSE /\ i' = i + 1
            /\ pc' = IF i + 1 < RangeLen(num_routes) THEN "input_route_dest" ELSE "done"

\* create_route raised (lines 176 and 184, or a RecursionError): neither call
\* site in main() catches it, so the run ends there.
RouteRaised(f, printed) ==
    /\ results' = Append(results, Finished(f, "Failure"))
    /\ out' = printed
    /\ frame' = NoFrame
    /\ i' = i
    /\ Raise("Error returned when creating a route")

\* One client.create_route call of the innermost invocation and what follows it
CreateRoute ==
    /\ pc = "create_route"
    /\ TargetKind(frame.mode) # "invalid"
    /\ \E r \in RouteResp(frame.gateway) :
        LET f == [frame EXCEPT !.answers = Append(@, AnswerKind(r)),
                               !.kinds = Append(@, TargetKind(frame.mode))]
        IN
        /\ calls' = Append(calls, Call("create_route",
                   <<frame.route_table, frame.destination, TargetKind(frame.mode), frame.gateway>>,
                   frame.site, r))
        /\ IF r = "ok"
           THEN RouteReturned(f)
           ELSE IF ShouldRetry(r)
           THEN LET g == [f EXCEPT !.slept = @ + RetryDelay] IN
                IF f.depth < RecursionLimit
                THEN /\ frame' = [g EXCEPT !.mode = RetryMode(f.mode), !.depth = @ + 1]
                     /\ out' = Append(out, <<"Retrying...">>)
                     /\ UNCHANGED <<pc, err, i, results>>
                ELSE RouteRaised(g, Append(out, <<"Retrying...">>))
           ELSE RouteRaised(f, out)
    /\ UNCHANGED <<vpc, cidr, igw, subnet_id, allocation, nat_gateway, nat_state,
                   route_table, num_routes, prompts, reprompts>>

-----------------------------------------------------------------------------
(* main(), lines 251-276: the additional routes *)

\* lines 252-261: read the number of routes until int() accepts it
InputNumRoutes ==
    /\ pc = "input_num_routes"
    /\ \E a \in NumAnswers :
        LET n == ParseInt(a) IN
        /\ n.ok \/ MayReject
        /\ prompts' = Append(prompts, Asked("num_routes", a))
        /\ IF n.ok
           THEN /\ num_routes' = n.val
                /\ pc' = IF 0 < RangeLen(n.val) THEN "input_route_dest" ELSE "done"
                /\ reprompts' = reprompts
           ELSE /\ num_routes' = num_routes
                /\ pc' = "input_num_routes"
                /\ reprompts' = reprompts + 1
    /\ UNCHANGED <<err, vpc, cidr, igw, subnet_id, allocation, nat_gateway, nat_state,
                   route_table, i, frame, results, calls, out>>

\* Variant of InputRouteDest: the answer is used without the check of line 268
InputRouteDest_NoCheck ==
    /\ pc = "input_route_dest"
    /\ \E a \in DestAnswers :
        /\ prompts' = Append(prompts, Asked("route_dest", a))
        /\ pc' = "create_route"
        /\ frame' = EnterCreateRoute(route_table, a, nat_gateway, "nat", i + 1)
    /\ UNCHANGED <<err, vpc, cidr, igw, subnet_id, allocation, nat_gateway, nat_state,
                   route_table, num_routes, i, results, calls, out, reprompts>>

\* lines 265-273: read the destination of route #i until cidr_re matches it,
\* then enter create_route(client, route_table, route_dest, nat_gateway, 'nat')
InputRouteDest ==
    /\ pc = "input_route_dest"
    /\ \E a \in DestAnswers :
        /\ CidrMatch(a) \/ MayReject
        /\ prompts' = Append(prompts, Asked("route_dest", a))
        /\ IF CidrMatch(a)
           THEN /\ pc' = "create_route"
                /\ frame' = EnterCreateRoute(route_table, a, nat_gateway, "nat", i + 1)
                /\ UNCHANGED <<out, reprompts>>
           ELSE /\ pc' = "input_route_dest"
                /\ frame' = frame
                /\ out' = Append(out, <<"CIDR range format is invalid.">>)
                /\ reprompts' = reprompts + 1
    /\ UNCHANGED <<err, vpc, cidr, igw, subnet_id, allocation, nat_gateway, nat_state,
                   route_table, num_routes, i, results, calls>>

-----------------------------------------------------------------------------

Next ==
    \/ CreateClient
    \/ InputVpc
    \/ WhileNotVpc
    \/ InputCidr
    \/ CreateInternetGateway
    \/ AttachInternetGateway
    \/ CreateSubnet
    \/ AllocateAddress
    \/ CreateNatGateway
    \/ WaitNatGateway
    \/ CreateRouteTable
    \/ AssociateRouteTable
    \/ CreateRoute
    \/ InputNumRoutes
    \/ InputRouteDest

Spec == Init /\ [][Next]_vars

\* The script is one thread of control: while a statement can run, it runs
\* (every client call returns and the operator answers every prompt).
FairSpec == Spec /\ WF_vars(Next)

-----------------------------------------------------------------------------
(* cidr_re (line 227) on its own: one string is handed to cidr_re.match, as *)
(* lines 228 and 268 do, and the outcome recorded.                          *)

ProbeGroups == {<<"7">>, <<"2","5">>, <<"9","9","9">>, <<"1","2","3","4">>, <<"x">>}

ProbeSuffixes ==
    {<<>>, <<"/">>, <<"/","5">>, <<"/","0">>, <<"/","0","5">>, <<"/","1","0">>,
     <<"/","2","9">>, <<"/","3","2">>, <<"/","3","3">>, <<"/","4","0">>,
     <<"/","0","0">>, <<"/","1","2","3">>, <<"/","a">>, <<"/","5","/","5">>,
     <<"\n">>, <<"/","5","\n">>, <<"/","0","5","\n">>, <<"\n","\n">>,
     <<".">>, <<" ">>}

\* '.'.join(gs)
RECURSIVE JoinDots(_)
JoinDots(gs) == IF Len(gs) = 1 THEN gs[1]
                ELSE gs[1] \o <<".">> \o JoinDots(Tail(gs))

CidrProbes ==
    {JoinDots(gs) \o suf :
        gs \in UNION {[1..k -> ProbeGroups] : k \in 1..MaxGroups}, suf \in ProbeSuffixes}

InitCidr ==
    /\ pc = "validate"
    /\ cidr \in CidrProbes
    /\ err = ""
    /\ vpc = None
    /\ igw = None
    /\ subnet_id = None
    /\ allocation = None
    /\ nat_gateway = None
    /\ nat_state = "absent"
    /\ route_table = None
    /\ num_routes = 0
    /\ i = 0
    /\ frame = NoFrame
    /\ results = <<>>
    /\ calls = <<>>
    /\ out = <<>>
    /\ prompts = <<>>
    /\ reprompts = 0

\* `if cidr_re.match(cidr)`
ValidateCidr ==
    /\ pc = "validate"
    /\ pc' = IF CidrMatch(cidr) THEN "accepted" ELSE "rejected"
    /\ UNCHANGED <<err, vpc, cidr, igw, subnet_id, allocation, nat_gateway, nat_state,
                   route_table, num_routes, i, frame, results, calls, out, prompts,
                   reprompts>>

SpecCidr == InitCidr /\ [][ValidateCidr]_vars

-----------------------------------------------------------------------------
(* Vocabulary of the properties *)

CallIdx == 1..Len(calls)

IsRouteCall(c) == c.op = "create_route"

\* create_route calls the client received for the invocation made at `site`
RouteCallsAt(site) ==
    Cardinality({k \in CallIdx : IsRouteCall(calls[k]) /\ calls[k].site = site})

CountOp(op) == Cardinality({k \in CallIdx : calls[k].op = op})

\* Position of a call in the documented order of steps
Rank(c) ==
    CASE c.op = "describe_instances"         -> 0
      [] c.op = "create_internet_gateway"    -> 1
      [] c.op = "attach_internet_gateway"    -> 2
      [] c.op = "create_subnet"              -> 3
      [] c.op = "allocate_address"           -> 4
      [] c.op = "create_nat_gateway"         -> 5
      [] c.op = "wait_nat_gateway_available" -> 6
      [] c.op = "create_route_table"         -> 7
      [] c.op = "associate_route_table"      -> 8
      [] c.op = "create_route"               -> 9 + c.site

\* The NAT gateway was not brought up: its creation or the wait for it failed
NatSetupFailed ==
    \E k \in CallIdx :
        /\ calls[k].op \in {"create_nat_gateway", "wait_nat_gateway_available"}
        /\ calls[k].resp # "ok"

\* The create_route invocation of main() line 247 ended in an exception
DefaultRouteFailed ==
    \E k \in 1..Len(results) : results[k].site = 0 /\ results[k].outcome = "Failure"

\* The calls that create a resource
CreationOps == {"create_internet_gateway", "create_subnet", "allocate_address",
                "create_nat_gateway", "create_route_table"}

\* The calls of create_igw, create_subnet and create_route_table
FatalOps == {"create_internet_gateway", "attach_internet_gateway", "create_subnet",
             "create_route_table", "associate_route_table"}

\* The run is over: main() returned or an exception left it
Terminated == pc \in {"done", "aborted"}

\* The operator's answer is one the prompt is documented to accept
ValidAnswer(p) ==
    CASE p.prompt = "vpc"        -> p.answer # ""
      [] p.prompt = "num_routes" -> ParseInt(p.answer).ok
      [] OTHER                   -> CidrMatch(p.answer)

\* The latest answer the operator gave is a valid one
LatestAnswerValid == prompts # <<>> /\ ValidAnswer(prompts[Len(prompts)])

IsVpcPrompt(p) == p.prompt = "vpc"

\* The answers given to the VPC prompt, in order
VpcAnswered == SelectSeq(prompts, IsVpcPrompt)

IsNumPrompt(p) == p.prompt = "num_routes"

\* The answers given to the number-of-routes prompt, in order
NumAnswered == SelectSeq(prompts, IsNumPrompt)

IsDestPrompt(p) == p.prompt = "route_dest"

\* The answers given to the route-destination prompts, in order
DestAnswered == SelectSeq(prompts, IsDestPrompt)

\* s.split(c)
RECURSIVE SplitAt(_, _)
SplitAt(s, c) ==
    IF \A k \in 1..Len(s) : s[k] # c THEN <<s>>
    ELSE LET p == CHOOSE k \in 1..Len(s) : s[k] = c /\ \A j \in 1..(k-1) : s[j] # c
         IN  <<SubSeq(s, 1, p - 1)>> \o SplitAt(SubSeq(s, p + 1, Len(s)), c)

AllDigits(g) == \A k \in 1..Len(g) : g[k] \in Digits

\* four dot-separated groups of 1 to 3 decimal digits
IsAddress(a) ==
    LET gs == SplitAt(a, ".") IN
    /\ Len(gs) = 4
    /\ \A k \in 1..4 : Len(gs[k]) \in 1..3 /\ AllDigits(gs[k])

MaskValue(m) == IF Len(m) = 1 THEN DigitVal(m[1])
                ELSE 10 * DigitVal(m[1]) + DigitVal(m[2])

\* a 1- or 2-digit mask whose numeric value is at most 32
AnyMaskUpTo32(m) == Len(m) \in 1..2 /\ AllDigits(m) /\ MaskValue(m) <= 32

\* the decimal numeral of a number from 0 to 32, without a leading zero
NumeralUpTo32(m) == AnyMaskUpTo32(m) /\ (Len(m) = 2 => m[1] # "0")

AcceptsAnyMask(s) ==
    LET parts == SplitAt(s, "/") IN
    \/ Len(parts) = 1 /\ IsAddress(parts[1])
    \/ Len(parts) = 2 /\ IsAddress(parts[1]) /\ AnyMaskUpTo32(parts[2])

DropFinalNewline(s) == IF s # <<>> /\ s[Len(s)] = "\n" THEN SubSeq(s, 1, Len(s) - 1) ELSE s

AcceptsNumeralMask(s) ==
    LET parts == SplitAt(DropFinalNewline(s), "/") IN
    \/ Len(parts) = 1 /\ IsAddress(parts[1])
    \/ Len(parts) = 2 /\ IsAddress(parts[1]) /\ NumeralUpTo32(parts[2])

Validated == pc \in {"accepted", "rejected"}

IsAcceptedDest(p) == p.prompt = "route_dest" /\ CidrMatch(p.answer)

\* The destinations the validator accepted, in the order supplied
AcceptedDests == SelectSeq(prompts, IsAcceptedDest)

\* Every call the client received so far was answered with a response
AllCallsOk == \A k \in CallIdx : calls[k].resp = "ok"

Succeeded(op, args, site, ret) ==
    [op |-> op, args |-> args, site |-> site, resp |-> "ok", ret |-> ret]

\* The calls of a run without a failure, from what the operator supplied
\* (network v, subnet range c, destinations d) and the ids the run holds
CallsOfCleanRun(v, c, d) ==
    << Succeeded("describe_instances", <<>>, 0, None),
       Succeeded("create_internet_gateway", <<>>, 0, igw),
       Succeeded("attach_internet_gateway", <<igw, v>>, 0, None),
       Succeeded("create_subnet", <<v, c>>, 0, subnet_id),
       Succeeded("allocate_address", <<"vpc">>, 0, allocation),
       Succeeded("create_nat_gateway", <<subnet_id, allocation>>, 0, nat_gateway),
       Succeeded("wait_nat_gateway_available", <<nat_gateway>>, 0, None),
       Succeeded("create_route_table", <<v>>, 0, route_table),
       Succeeded("associate_route_table", <<route_table, subnet_id>>, 0, None),
       Succeeded("create_route", <<route_table, S_default, "GatewayId", igw>>, 0, None) >>
    \o [k \in 1..Len(d) |->
          Succeeded("create_route", <<route_table, d[k].answer, "NatGatewayId", nat_gateway>>, k,
                    None)]

IsCidrPrompt(p) == p.prompt = "cidr"

CidrAnswered == SelectSeq(prompts, IsCidrPrompt)

\* The identifier appears in something the script printed
Reported(id) == \E n \in 1..Len(out) : \E j \in 1..Len(out[n]) : out[n][j] = id

\* create_client raised: no region, no credentials, or describe_instances refused
ClientSetupFailed ==
    \/ err = "Error creating client"
    \/ \E k \in CallIdx : calls[k].op = "describe_instances" /\ calls[k].resp # "ok"

\* The earlier create_route calls made for the same route as call k
EarlierAtSite(k) ==
    {j \in 1..(k-1) : IsRouteCall(calls[j]) /\ calls[j].site = calls[k].site}

\* The create_route call made just before call k for the same route
PrevAtSite(k) == CHOOSE j \in EarlierAtSite(k) : \A h \in EarlierAtSite(k) : h <= j

\* The keyword main() asks for: 'igw' at line 247, 'nat' at line 273
CallerKind(site) == IF site = 0 THEN "GatewayId" ELSE "NatGatewayId"

\* The identifiers the calls of op made before call k returned
ReturnedBefore(k, op) ==
    {calls[j].ret : j \in {h \in 1..(k-1) : calls[h].op = op /\ calls[h].resp = "ok"}}

AllNotFound(answers) == \A j \in 1..Len(answers) : answers[j] = "NotFound"

-----------------------------------------------------------------------------
(* C1: one create_route invocation issues the client's create_route at most   *)
(* twice, and against a provider that always answers NotFound it issues it    *)
(* exactly twice and then fails.  Stated for the runs in which the NAT        *)
(* gateway came up, so that no violation rests on a failed NAT setup.         *)
C1_AtMostOneRetry ==
    ~NatSetupFailed =>
    /\ \A k \in CallIdx : IsRouteCall(calls[k]) => RouteCallsAt(calls[k].site) <= 2
    /\ \A k \in 1..Len(results) :
          AllNotFound(results[k].answers)
              => Len(results[k].answers) = 2 /\ results[k].outcome = "Failure"

(* C2: the client receives a create_route call with a NAT target only after   *)
(* create_nat_gateway succeeded and the wait for the gateway returned in the  *)
(* same run.                                                                  *)
C2_NatRouteOnlyAfterActive ==
    \A k \in CallIdx :
        (IsRouteCall(calls[k]) /\ calls[k].args[3] = "NatGatewayId")
            => \E m, j \in 1..(k-1) :
                  /\ m < j
                  /\ calls[m].op = "create_nat_gateway" /\ calls[m].resp = "ok"
                  /\ calls[j].op = "wait_nat_gateway_available" /\ calls[j].resp = "ok"

(* C3: when the NAT gateway's creation fails or the wait for it fails or      *)
(* times out, no create_route_table, associate_route_table or create_route    *)
(* call is made in that run.                                                  *)
C3_NatFailureStopsRun ==
    NatSetupFailed
        => \A k \in CallIdx :
              calls[k].op \notin {"create_route_table", "associate_route_table", "create_route"}

(* C4: when the creation of an additional route fails, a warning is printed   *)
(* and the run is not aborted.  Stated for the runs in which the NAT gateway  *)
(* came up, so that no violation rests on a failed NAT setup.                 *)
C4_AdditionalRouteFailureNonFatal ==
    \A k \in 1..Len(results) :
        (~NatSetupFailed /\ results[k].site >= 1 /\ results[k].outcome = "Failure")
            => /\ pc # "aborted"
               /\ \E n \in 1..Len(out) : out[n] = <<"Warning: Could not create route">>

(* C5: the calls the client receives follow the order internet gateway,       *)
(* attach, subnet, address, NAT gateway, wait, route table, association,      *)
(* default route, additional routes in turn: no call of an earlier step       *)
(* comes after a call of a later step.                                        *)
C5_FixedOrder ==
    \A k \in 1..(Len(calls) - 1) : Rank(calls[k]) <= Rank(calls[k+1])

C5_Witness ==
    /\ pc = "done"
    /\ RouteCallsAt(2) >= 1
    /\ CountOp("wait_nat_gateway_available") = 1

(* C6: when the client answers the first create_route call of an invocation   *)
(* with a NotFound error and the second with success, the invocation succeeds *)
(* and the client has received exactly two create_route calls for it.         *)
C6_RetryOnceThenSuccess ==
    \A k \in 1..Len(results) :
        LET a == results[k].answers IN
        /\ a[1] = "NotFound" => Len(a) >= 2
        /\ (Len(a) >= 2 /\ a[1] = "NotFound" /\ a[2] = "ok")
              => /\ results[k].outcome = "Success"
                 /\ Len(a) = 2
                 /\ RouteCallsAt(results[k].site) = 2

C6_Witness ==
    \E k \in 1..Len(results) :
        /\ results[k].answers = <<"NotFound", "ok">>
        /\ results[k].outcome = "Success"

(* C7: when the client answers the first create_route call of an invocation   *)
(* with an error that is not NotFound, the invocation fails after that one    *)
(* call, without sleeping and without a retry.                                *)
C7_OtherErrorFailsAtOnce ==
    /\ \A k \in 1..Len(results) :
          LET a == results[k].answers IN
          a[1] = "Error"
              => /\ results[k].outcome = "Failure"
                 /\ Len(a) = 1
                 /\ RouteCallsAt(results[k].site) = 1
                 /\ results[k].slept = 0
    /\ frame.answers # <<>> => frame.answers[1] = "NotFound"

C7_Witness ==
    \E k \in 1..Len(results) :
        /\ results[k].answers = <<"Error">>
        /\ results[k].outcome = "Failure"

(* C8: when the default route's creation fails the run is aborted, the        *)
(* operator is not asked for additional routes and no create_route call for   *)
(* an additional destination is made.                                         *)
C8_DefaultRouteMandatory ==
    DefaultRouteFailed
        => /\ pc = "aborted"
           /\ \A n \in 1..Len(prompts) : prompts[n].prompt \notin {"num_routes", "route_dest"}
           /\ \A k \in CallIdx : IsRouteCall(calls[k]) => calls[k].site = 0

C8_Witness ==
    /\ DefaultRouteFailed
    /\ pc = "aborted"

(* C9: in one run create_internet_gateway, create_subnet, allocate_address,   *)
(* create_nat_gateway and create_route_table are each called at most once,    *)
(* whatever the client answers.                                               *)
C9_CreatedAtMostOnce == \A op \in CreationOps : CountOp(op) <= 1

C9_Witness ==
    /\ pc = "aborted"
    /\ Len(calls) > 0
    /\ IsRouteCall(calls[Len(calls)])
    /\ NatSetupFailed
    /\ \A op \in CreationOps : CountOp(op) = 1

(* C10: a failure of create_internet_gateway, attach_internet_gateway,        *)
(* create_subnet, create_route_table or associate_route_table aborts the run  *)
(* at that call: it is the last call the client receives.                     *)
C10_ProviderFailureFatal ==
    \A k \in CallIdx :
        (calls[k].op \in FatalOps /\ calls[k].resp # "ok")
            => k = Len(calls) /\ pc = "aborted"

C10_Witness ==
    /\ pc = "aborted"
    /\ Len(calls) > 0
    /\ calls[Len(calls)].op = "associate_route_table"
    /\ calls[Len(calls)].resp = "Error"


(* C11: every run in which the operator keeps supplying valid answers ends:   *)
(* it reaches the end of main() or is aborted by an exception.                *)
C11_RunEnds == ([]<>LatestAnswerValid) => <>Terminated

(* C12: once the operator answers the VPC prompt with a non-empty string the  *)
(* prompt loop is left and the run goes on with that string: the internet     *)
(* gateway is attached to it, and no call carries an empty VPC identifier.    *)
C12_VpcRepromptedUntilNonEmpty ==
    LET v == VpcAnswered IN
    /\ (v # <<>> /\ v[Len(v)].answer # "") => pc # "while_not_vpc"
    /\ \A k \in CallIdx :
          /\ calls[k].op = "attach_internet_gateway"
                => v # <<>> /\ calls[k].args[2] = v[Len(v)].answer /\ calls[k].args[2] # ""
          /\ calls[k].op \in {"create_subnet", "create_route_table"}
                => calls[k].args[1] # ""


(* C13: the number of routes is accepted only when it parses as an integer    *)
(* that is not negative: the run leaves the prompt only with such an answer,  *)
(* every other answer is followed by the same prompt, and a run that ends     *)
(* without a failed call has processed as many destinations as the count.     *)
(* Stated for the runs in which the NAT gateway came up.                      *)
C13_CountIsNonNegativeInteger ==
    LET v == NumAnswered IN
    ~NatSetupFailed =>
    /\ \A n \in 1..Len(v) :
          (n < Len(v) \/ pc # "input_num_routes")
              => (n = Len(v) <=> (ParseInt(v[n].answer).ok /\ ParseInt(v[n].answer).val >= 0))
    /\ (pc = "done" /\ AllCallsOk /\ v # <<>>)
          => Len(results) = 1 + ParseInt(v[Len(v)].answer).val


(* C14 as first stated: besides what C14 states below, the destination        *)
(* 999.999.999.999 is rejected, so no create_route call ever carries it.      *)
C14_Rejects999 ==
    /\ \A k \in CallIdx :
          calls[k].op = "create_subnet" => CidrMatch(calls[k].args[2])
    /\ \A k \in CallIdx :
          (IsRouteCall(calls[k]) /\ calls[k].site >= 1)
              => /\ calls[k].site <= Len(AcceptedDests)
                 /\ calls[k].args[2] # S_999

(* C14: every CIDR string passed to create_subnet or to the create_route of   *)
(* an additional route was accepted by the validator before; the k-th         *)
(* additional route carries the k-th accepted destination, and a rejected     *)
(* destination is followed by the same prompt, with no create_route call      *)
(* made for it.                                                               *)
C14_ValidatedBeforeUse ==
    /\ \A k \in CallIdx :
          calls[k].op = "create_subnet" => CidrMatch(calls[k].args[2])
    /\ \A k \in CallIdx :
          (IsRouteCall(calls[k]) /\ calls[k].site >= 1)
              => /\ calls[k].site <= Len(AcceptedDests)
                 /\ calls[k].args[2] = AcceptedDests[calls[k].site].answer
    /\ LET d == DestAnswered IN
       (d # <<>> /\ ~CidrMatch(d[Len(d)].answer))
           => /\ pc = "input_route_dest"
              /\ frame = NoFrame
              /\ RouteCallsAt(Len(AcceptedDests) + 1) = 0

C14_Witness ==
    LET d == DestAnswered IN
    /\ ~NatSetupFailed
    /\ Len(d) = 2
    /\ d[1].answer = S_1_2_3_4_05
    /\ d[2].answer = S_999
    /\ \E k \in CallIdx : IsRouteCall(calls[k]) /\ calls[k].site = 1
                          /\ calls[k].args[2] = S_999


(* C15 as first stated: the validator accepts exactly four dot-separated      *)
(* groups of 1 to 3 digits, optionally followed by '/' and a 1- or 2-digit    *)
(* mask of value at most 32 ('5' and '05' alike), and rejects the rest.       *)
C15_AcceptsAnyMaskUpTo32 ==
    Validated => (pc = "accepted" <=> AcceptsAnyMask(cidr))

(* C15: the validator accepts exactly four dot-separated groups of 1 to 3     *)
(* digits, optionally followed by '/' and the decimal numeral of a mask from  *)
(* 0 to 32 written without a leading zero, the whole optionally followed by   *)
(* one final newline, and rejects every other string.                         *)
C15_AcceptsNumeralMaskOnly ==
    Validated => (pc = "accepted" <=> AcceptsNumeralMask(cidr))

C15_Witness ==
    /\ pc = "rejected"
    /\ cidr = <<"7",".","2","5",".","9","9","9",".","7","/","0","5">>


(* C16: a run that ended at Done with every provider call answered with       *)
(* success issued exactly: the client test call, create and attach of one     *)
(* internet gateway, one create_subnet with the supplied range, one           *)
(* allocate_address, one create_nat_gateway and a wait that found it          *)
(* available, one create_route_table associated with that subnet, one         *)
(* create_route for 0.0.0.0/0 as GatewayId, then one NatGatewayId             *)
(* create_route per accepted destination, in the order supplied.  With every  *)
(* call answered with success the run aborts nowhere after the client test.   *)
C16_CleanRunCallSequence ==
    /\ (pc = "done" /\ AllCallsOk)
          => /\ calls = CallsOfCleanRun(VpcAnswered[1].answer,
                                        CidrAnswered[Len(CidrAnswered)].answer,
                                        AcceptedDests)
             /\ nat_state = "available"
             /\ igw # None /\ subnet_id # None /\ allocation # None
             /\ nat_gateway # None /\ route_table # None
    /\ (pc = "aborted" /\ AllCallsOk) => calls = <<>>

C16_Witness ==
    /\ pc = "done"
    /\ AllCallsOk
    /\ Len(AcceptedDests) = 2
    /\ AcceptedDests[1].answer = S_999
    /\ AcceptedDests[2].answer = S_172_16_0_0_16


(* C17: when the run has reached Done, the identifier of every resource it    *)
(* created (internet gateway, subnet, address allocation, NAT gateway, route  *)
(* table) has been printed.  Stated for the runs in which the NAT gateway     *)
(* came up.                                                                   *)
C17_AllIdentifiersReported ==
    (pc = "done" /\ ~NatSetupFailed)
        => \A id \in {igw, subnet_id, allocation, nat_gateway, route_table} : Reported(id)


(* C18: when client construction fails (no region, no credentials, or the     *)
(* test call refused), the run is over with that error: the test call was     *)
(* made at most once, no prompt was shown, nothing was printed and no other   *)
(* call, in particular no resource-creating call, was issued.                 *)
C18_AuthFailureFatal ==
    ClientSetupFailed
        => /\ pc = "aborted"
           /\ err = "Error creating client"
           /\ prompts = <<>>
           /\ out = <<>>
           /\ Len(calls) <= 1
           /\ \A k \in CallIdx : calls[k].op = "describe_instances"
                                 /\ calls[k].op \notin CreationOps

C18_Witness ==
    /\ pc = "aborted"
    /\ err = "Error creating client"
    /\ Len(calls) = 1
    /\ calls[1].op = "describe_instances"
    /\ calls[1].resp = "Error"


(* C19: the first create_route call made for a route passes the gateway under *)
(* the keyword the caller asked for; every later call for that route follows  *)
(* a NotFound answer and passes the gateway as NatGatewayId, with the same    *)
(* route table, destination and gateway id as the call before it, also for    *)
(* the default route, whose caller asked for GatewayId.                       *)
C19_RetryForcesNatKind ==
    \A k \in CallIdx :
        IsRouteCall(calls[k]) =>
            IF EarlierAtSite(k) = {}
            THEN calls[k].args[3] = CallerKind(calls[k].site)
            ELSE LET j == PrevAtSite(k) IN
                 /\ calls[j].resp = "NotFound"
                 /\ calls[k].args[3] = "NatGatewayId"
                 /\ calls[k].args[1] = calls[j].args[1]
                 /\ calls[k].args[2] = calls[j].args[2]
                 /\ calls[k].args[4] = calls[j].args[4]

C19_Witness ==
    \E j, k \in CallIdx :
        /\ ~NatSetupFailed
        /\ j < k
        /\ IsRouteCall(calls[j]) /\ calls[j].site = 0 /\ calls[j].args[3] = "GatewayId"
        /\ calls[j].resp = "NotFound"
        /\ IsRouteCall(calls[k]) /\ calls[k].site = 0 /\ calls[k].args[3] = "NatGatewayId"
        /\ calls[k].args[4] = igw /\ igw # None


(* C20: create_nat_gateway is called with the subnet id this run's            *)
(* create_subnet returned and the allocation id its allocate_address          *)
(* returned; associate_route_table with the table id its create_route_table   *)
(* returned and that subnet id; every create_route call with that table id;   *)
(* and every create_route call of the default route with the id this run's    *)
(* create_internet_gateway returned as its gateway.                           *)
C20_IdentifiersWired ==
    \A k \in CallIdx :
        LET c == calls[k] IN
        /\ c.op = "create_nat_gateway"
              => /\ c.args[1] \in ReturnedBefore(k, "create_subnet")
                 /\ c.args[2] \in ReturnedBefore(k, "allocate_address")
        /\ c.op = "associate_route_table"
              => /\ c.args[1] \in ReturnedBefore(k, "create_route_table")
                 /\ c.args[2] \in ReturnedBefore(k, "create_subnet")
        /\ IsRouteCall(c)
              => /\ c.args[1] \in ReturnedBefore(k, "create_route_table")
                 /\ c.site = 0 => c.args[4] \in ReturnedBefore(k, "create_internet_gateway")

C20_Witness ==
    /\ pc = "done"
    /\ AllCallsOk
    /\ igw = "igw-2"
    /\ route_table = "rtb-2"
    /\ RouteCallsAt(0) = 1
    /\ RouteCallsAt(1) = 1

====
